---- MODULE Spec2Model ----
(***************************************************************************)
(* Price tracker bot (src/index.mjs): the product registry priceData, the  *)
(* recipient set chats, the store file prices.json, the monitoring cycle   *)
(* checkPrices and the command handlers that share the registry with it.   *)
(*                                                                         *)
(* Node runs one block of a handler at a time; a handler gives up control  *)
(* only at an await.  Every action below is one such block: from the       *)
(* return of one await to the start of the next.                           *)
(*                                                                         *)
(* Strings are sequences of tokens (a token is a run of characters that    *)
(* the code never splits).  Prices are whole cents.                        *)
(***************************************************************************)
EXTENDS Integers, Sequences, FiniteSets, TLC

\* ------------------------------------------------------------------ bounds
\* The clock ticks when a message, a button press or a cron firing arrives
\* and when a block reads it (new Date()); none of these happens once the
\* clock has reached the bound of the specification.
MaxClock == 6
\* The bound of the clock where handlers run one at a time (SpecSeq).
SeqClock == 8
\* The bound of the clock where the store is empty at startup (SpecEmpty).
EmptyClock == 7
\* The bound of the clock where /remove runs on its own (SpecRemove).
RemoveClock == 5
\* The long run of one product (SpecHistory) makes HISTORY_LIMIT +
\* ExtraCycles successful cycles.
ExtraCycles == 5

\* src/index.mjs:69
HISTORY_LIMIT == 120

\* ----------------------------------------------------------------- values
Null == "null"
NoNum == -1
IsNum(x) == x >= 0

Min(a, b) == IF a <= b THEN a ELSE b
Range(s) == {s[i] : i \in 1..Len(s)}

\* The chats that talk to the bot and the checkPrices invocations that can
\* be in flight together.
ChatIds == {1, 2}
Cycles == {1, 2}

ORIGIN == "https://x.com"
Origins == {ORIGIN}
UA == <<ORIGIN, "/dp/A">>
UAq == <<ORIGIN, "/dp/A", "?", "x=1">>
UB == <<ORIGIN, "/dp/B">>
\* Texts a user sends as the argument of /add, /remove and /edit.
RawUrls == {UA, UAq, UB}

Titles == {<<"Kettle">>}
\* Texts a user sends as the argument of /remove: a URL or a piece of a title.
RemoveArgs == RawUrls \cup Titles
\* What a product page shows on a visit: a price, with or without an image.
Pages == {[price |-> 1, imageUrl |-> "img"], [price |-> 2, imageUrl |-> Null]}

\* ------------------------------------------------------------------ utils
\* Least index of s holding a token of set, Len(s)+1 when there is none.
FirstIndex(s, set) ==
  LET hits == {i \in 1..Len(s) : s[i] \in set}
  IN IF hits = {} THEN Len(s) + 1
     ELSE CHOOSE i \in hits : \A j \in hits : i <= j

\* The text starts with https://host, followed by a path, a query or a
\* fragment: a URL whose origin is that start.
HasOrigin(url) == Len(url) >= 1 /\ url[1] \in Origins
\* Tokens of letters only.  Letters followed by ":" are a scheme, and a URL
\* with such a scheme has the origin "null".
AlphaTokens == {"x", "null"}
\* The index of the ":" that ends the scheme, 0 when the text has no scheme.
SchemeColon(url) ==
  LET colons == {i \in 2..Len(url) :
                   url[i] = ":" /\ \A j \in 1..(i - 1) : url[j] \in AlphaTokens}
  IN IF colons = {} THEN 0 ELSE CHOOSE i \in colons : \A j \in colons : i <= j
\* new URL(url) succeeds.
IsParseable(url) == HasOrigin(url) \/ SchemeColon(url) > 0
\* The part of the text after scheme and host that precedes query and fragment.
Pathname(rest) == SubSeq(rest, 1, FirstIndex(rest, {"?", "#"}) - 1)

\* u.origin + u.pathname, and url.split("?")[0] when new URL throws.
sanitizeAmazonURL(url) ==
  IF HasOrigin(url)
  THEN LET pathname == Pathname(SubSeq(url, 2, Len(url)))
       IN <<url[1]>> \o (IF pathname = <<>> THEN <<"/">> ELSE pathname)
  ELSE IF IsParseable(url)
  THEN <<"null">> \o Pathname(SubSeq(url, SchemeColon(url) + 1, Len(url)))
  ELSE SubSeq(url, 1, FirstIndex(url, {"?"}) - 1)

\* raw.startsWith("http")
StartsWithHttp(raw) == Len(raw) >= 1 /\ raw[1] \in Origins

\* s.includes(sub)
Includes(s, sub) ==
  \E i \in 1..(Len(s) - Len(sub) + 1) : SubSeq(s, i, i + Len(sub) - 1) = sub

\* A trim that keeps the oldest entries: history.slice(0, HISTORY_LIMIT).
TrimHistoryOldest(h) ==
  IF Len(h) > HISTORY_LIMIT THEN SubSeq(h, 1, HISTORY_LIMIT) ELSE h

\* history.slice(-HISTORY_LIMIT) when the history is longer than the limit.
TrimHistory(h) ==
  IF Len(h) > HISTORY_LIMIT
  THEN SubSeq(h, Len(h) - HISTORY_LIMIT + 1, Len(h))
  ELSE h

\* x.toFixed(1) of diff/orig*100, in tenths of a percent.
PctToFixed1(diff, orig) == (2000 * diff + orig) \div (2 * orig)

\* --------------------------------------------------------------- registry
\* priceData is a JS object: a map (priceData) whose keys keep their
\* insertion order (keyOrder).
RegPut(pd, k, rec) == [x \in DOMAIN pd \cup {k} |-> IF x = k THEN rec ELSE pd[x]]
RegDel(pd, k) == [x \in DOMAIN pd \ {k} |-> pd[x]]
OrdPut(ko, k) == IF k \in Range(ko) THEN ko ELSE Append(ko, k)
OrdDel(ko, k) == SelectSeq(ko, LAMBDA x : x # k)

\* JSON.stringify({ products: priceData, chats: [...chats] })
Snapshot(pd, ko, ch) == [products |-> pd, order |-> ko, chats |-> ch]

EmptyReg == [x \in {} |-> 0]

Product(url, title, price, lowest, image, checked, added, by, history) ==
  [url |-> url, title |-> title, price |-> price, lowestPrice |-> lowest,
   imageUrl |-> image, lastChecked |-> checked, addedDate |-> added,
   addedBy |-> by, history |-> history]

NoProduct == Product(<<>>, <<>>, NoNum, NoNum, Null, NoNum, NoNum, NoNum, <<>>)

VARIABLES
  priceData,  \* src/index.mjs:21, key -> product
  keyOrder,   \* Object.keys(priceData)
  chats,      \* src/index.mjs:22, a Set: its members in insertion order
  disk,       \* the content of prices.json
  now,        \* the clock
  cycle,      \* the checkPrices invocations in flight
  addOp,      \* the /add handlers in flight
  editOp,     \* the /edit handlers in flight
  appended,   \* history variable: key -> every sample appended for the product
  browsers,   \* the browsers that are open: launched by chromium.launch() and
              \* not closed, those of /add and /edit counted once they return
  call        \* a function applied on its own: its argument and its results

vars ==
  <<priceData, keyOrder, chats, disk, now, cycle, addOp, editOp, appended,
    browsers, call>>

AddSlots == {1}
EditSlots == {1}

\* A sample of the history variable: the history entry and the handler that
\* appended it.
Sample(entry, by) == [date |-> entry.date, price |-> entry.price, by |-> by]
AsSamples(h, by) == [i \in 1..Len(h) |-> Sample(h[i], by)]
\* The history variable after a handler has read the product under key and
\* stored it under finalKey with a new history entry.
Lineage(ap, key, finalKey, entry, by) ==
  LET prior == IF key \in DOMAIN ap THEN ap[key] ELSE <<>>
      put == RegPut(ap, finalKey, Append(prior, Sample(entry, by)))
  IN IF finalKey # key THEN RegDel(put, key) ELSE put

\* ------------------------------------------------------------------- Init
\* prices.json as loadData can find it: absent (read as empty), or written
\* by an earlier version of the bot that keyed products by the raw URL.
\* The clock starts after the dates of the file.
LegacyStore ==
  Snapshot(
    [k \in {UB, UAq} |->
       IF k = UB
       THEN Product(UB, <<"Kettle">>, 3, 2, Null, 1, 0, 1,
                    <<[date |-> 0, price |-> 2], [date |-> 1, price |-> 3]>>)
       ELSE Product(UAq, <<"Kettle">>, 2, 2, "img", 1, 1, 1,
                    <<[date |-> 1, price |-> 2]>>)],
    <<UB, UAq>>,
    <<1>>)

EmptyStore == Snapshot(EmptyReg, <<>>, <<>>)

\* A checkPrices invocation that is not running.  log, saves, rcpt, attempts
\* and anyFailed are history fields: what the invocation has done so far.
CycleIdle ==
  [pc |-> "idle", keys |-> <<>>, idx |-> 0, stored |-> NoProduct,
   sanitized |-> <<>>, productsChanged |-> <<>>, errors |-> <<>>,
   ci |-> 0, pj |-> 0,
   log |-> <<>>, saves |-> 0, rcpt |-> <<>>, attempts |-> <<>>,
   anyFailed |-> FALSE]

AddIdle == [pc |-> "idle", chatId |-> 0, sanitized |-> <<>>]
EditIdle == [pc |-> "idle", chatId |-> 0, oldKey |-> <<>>, newKey |-> <<>>]
\* A handler that returned from its error branch with nothing stored.
AddEnded == [AddIdle EXCEPT !.pc = "failed"]
EditEnded == [EditIdle EXCEPT !.pc = "failed"]

\* No function is applied on its own.
NoCall == [arg |-> <<>>, once |-> <<>>, twice |-> <<>>, step |-> 0]

\* loadData() on one of the stores.
InitProgram(stores) ==
  /\ disk \in stores
  /\ priceData = disk.products
  /\ keyOrder = disk.order
  /\ chats = disk.chats
  /\ now = 2
  /\ cycle = [c \in Cycles |-> CycleIdle]
  /\ addOp = [a \in AddSlots |-> AddIdle]
  /\ editOp = [e \in EditSlots |-> EditIdle]
  /\ appended = [k \in DOMAIN priceData |-> AsSamples(priceData[k].history, "loaded")]
  /\ browsers = 0

InitFrom(stores) == InitProgram(stores) /\ call = NoCall

Init == InitFrom({LegacyStore})

\* Time passes, up to the bound lim.
Tick(lim) == now < lim /\ now' = now + 1

\* The handlers suspended at an await.
InFlight ==
  Cardinality({c \in Cycles : cycle[c].pc \notin {"idle", "done", "aborted"}})
  + Cardinality({a \in AddSlots : addOp[a].pc = "fetching"})
  + Cardinality({e \in EditSlots : editOp[e].pc = "fetching"})

\* --------------------------------------------------- scrape results, chats
ScrapeError == [error |-> TRUE, title |-> <<>>, price |-> NoNum, imageUrl |-> Null]
Scraped(title, price, image) ==
  [error |-> FALSE, title |-> title, price |-> price, imageUrl |-> image]
\* What scrapeProduct can return: { error } or { url, title, price, imageUrl }
\* with a title and a price > 0.
ScrapeResults ==
  {ScrapeError} \cup {Scraped(t, p.price, p.imageUrl) : t \in Titles, p \in Pages}

\* chats.add(chatId) of the "message" handler, which runs before the
\* command handler of the same message.
Registered(ch, id) == IF id \in Range(ch) THEN ch ELSE Append(ch, id)
\* The store file after that handler: saveData() only for a new chat.
DiskAfterRegister(id) ==
  IF id \in Range(chats) THEN disk
  ELSE Snapshot(priceData, keyOrder, Registered(chats, id))

\* bot.on("message"): any message that is no command below.
Message(chatId, lim) ==
  /\ chatId \notin Range(chats)
  /\ chats' = Registered(chats, chatId)
  /\ disk' = DiskAfterRegister(chatId)
  /\ UNCHANGED <<priceData, keyOrder, cycle, addOp, editOp, appended, browsers, call>>
  /\ Tick(lim)

\* ------------------------------------------------------------ checkPrices
\* const keys = Object.keys(priceData); if (!keys.length) return;
\* then await chromium.launch().
StartCheck(c) ==
  IF keyOrder = <<>> THEN cycle
  ELSE [cycle EXCEPT ![c] = [CycleIdle EXCEPT !.pc = "launch", !.keys = keyOrder]]

\* The slot a new invocation takes: the first one that is not running.
Free(c) == cycle[c].pc \in {"idle", "done", "aborted"}
FirstFree(c) == Free(c) /\ \A d \in Cycles : d < c => ~Free(d)

\* cron.schedule("0 */2 * * *")
CronCheck(c, lim) ==
  /\ FirstFree(c)
  /\ cycle' = StartCheck(c)
  /\ UNCHANGED <<priceData, keyOrder, chats, disk, addOp, editOp, appended, browsers, call>>
  /\ Tick(lim)

\* bot.onText(/\/check/): the message registers the chat, then checkPrices().
CheckCommand(c, chatId, lim) ==
  /\ FirstFree(c)
  /\ chats' = Registered(chats, chatId)
  /\ disk' = DiskAfterRegister(chatId)
  /\ cycle' = StartCheck(c)
  /\ UNCHANGED <<priceData, keyOrder, addOp, editOp, appended, browsers, call>>
  /\ Tick(lim)

\* callback_query "check_prices": no message, no registration.
CheckButton(c, lim) ==
  /\ FirstFree(c)
  /\ cycle' = StartCheck(c)
  /\ UNCHANGED <<priceData, keyOrder, chats, disk, addOp, editOp, appended, browsers, call>>
  /\ Tick(lim)

\* The index after i of the next key of the snapshot that priceData still
\* holds (if (!stored) continue), 0 when the loop is over.
NextKey(keys, i, pd) ==
  LET later == {j \in (i + 1)..Len(keys) : keys[j] \in DOMAIN pd}
  IN IF later = {} THEN 0
     ELSE CHOOSE j \in later : \A k \in later : j <= k

\* The for loop from the end of item r.idx to its next await: the scrape of
\* the next product, or browser.close() after the last one.
LoopToAwait(r, pd) ==
  LET j == NextKey(r.keys, r.idx, pd)
  IN IF j = 0
     THEN [r EXCEPT !.pc = "closing", !.idx = Len(r.keys) + 1,
                    !.stored = NoProduct, !.sanitized = <<>>]
     ELSE LET key == r.keys[j]
              stored == pd[key]
              sourceUrl == IF stored.url # <<>> THEN stored.url ELSE key
          IN [r EXCEPT !.pc = "scrape", !.idx = j, !.stored = stored,
                       !.sanitized = sanitizeAmazonURL(sourceUrl)]

\* chromium.launch, newContext and newPage return; the loop reads its first
\* product.
Launched(c) ==
  /\ cycle[c].pc = "launch"
  /\ cycle' = [cycle EXCEPT ![c] = LoopToAwait(cycle[c], priceData)]
  /\ browsers' = browsers + 1
  /\ UNCHANGED <<priceData, keyOrder, chats, disk, now, addOp, editOp, appended, call>>

\* chromium.launch throws: checkPrices ends with the exception.
LaunchFailed(c) ==
  /\ cycle[c].pc = "launch"
  /\ cycle' = [cycle EXCEPT ![c].pc = "aborted"]
  /\ UNCHANGED <<priceData, keyOrder, chats, disk, now, addOp, editOp, appended,
                 browsers, call>>

\* chromium.launch returns and newContext or newPage throws: checkPrices
\* ends with the exception, before the line that closes the browser.
ContextFailed(c) ==
  /\ cycle[c].pc = "launch"
  /\ cycle' = [cycle EXCEPT ![c].pc = "aborted"]
  /\ browsers' = browsers + 1
  /\ UNCHANGED <<priceData, keyOrder, chats, disk, now, addOp, editOp, appended, call>>

\* The error branch: stored.lastChecked = new Date(); priceData[key] = stored.
FailedProduct(stored, t) == [stored EXCEPT !.lastChecked = t]

\* scrapeProduct returned { error }.
ScrapeFailed(c, lim) ==
  LET r == cycle[c]
      key == r.keys[r.idx]
      rec == FailedProduct(r.stored, now)
  IN /\ r.pc = "scrape"
     /\ priceData' = RegPut(priceData, key, rec)
     /\ keyOrder' = OrdPut(keyOrder, key)
     /\ Tick(lim)
     /\ cycle' = [cycle EXCEPT ![c] =
          [r EXCEPT !.pc = "pause", !.errors = Append(r.errors, key),
                    !.log = Append(r.log, [key |-> key, finalKey |-> key, ok |-> FALSE,
                                           prev |-> r.stored.price, price |-> NoNum,
                                           rec |-> rec])]]
     /\ appended' = IF key \in DOMAIN appended THEN appended
                    ELSE RegPut(appended, key, AsSamples(rec.history, "loaded"))
     /\ UNCHANGED <<chats, disk, addOp, editOp, browsers, call>>

\* originalPrice and originalLowest.
NumOr(x, other) == IF IsNum(x) THEN x ELSE other

\* A baseline taken from the lowest price instead of the last one.
OriginalPriceFromLowest(stored, scraped) == NumOr(stored.lowestPrice, scraped.price)

\* originalPrice: stored.price when it is a number, else scraped.price
OriginalPrice(stored, scraped) == NumOr(stored.price, scraped.price)

\* A comparison that takes an unchanged price for a drop.
IsDropOrEqual(price, originalPrice) == price <= originalPrice

\* if (scraped.price < originalPrice)
IsDrop(price, originalPrice) == price < originalPrice

\* A minimum taken with the last price instead of the lowest one.
NewLowestFromPrice(price, stored) == Min(price, NumOr(stored.price, price))

\* lowestPrice: Math.min(scraped.price, originalLowest)
NewLowest(price, stored) == Min(price, NumOr(stored.lowestPrice, price))

\* An updated object whose history does not get the new sample.
UpdatedProductNoSample(stored, scraped, sanitized, t) ==
  Product(sanitized, scraped.title, scraped.price,
          NewLowest(scraped.price, stored),
          IF scraped.imageUrl # Null THEN scraped.imageUrl ELSE stored.imageUrl,
          t,
          NumOr(stored.addedDate, t),
          stored.addedBy,
          stored.history)

\* The object built at "Build updated object", with its history entry.
UpdatedProduct(stored, scraped, sanitized, t) ==
  Product(sanitized, scraped.title, scraped.price,
          NewLowest(scraped.price, stored),
          IF scraped.imageUrl # Null THEN scraped.imageUrl ELSE stored.imageUrl,
          t,
          NumOr(stored.addedDate, t),
          stored.addedBy,
          TrimHistory(Append(stored.history, [date |-> t, price |-> scraped.price])))

\* The entry pushed on productsChanged; message is the text's numbers.
DropEntry(originalPrice, scraped, updated, sanitized) ==
  [url |-> sanitized,
   message |-> [previousPrice |-> originalPrice, newPrice |-> scraped.price,
                savings |-> originalPrice - scraped.price,
                pct |-> PctToFixed1(originalPrice - scraped.price, originalPrice),
                lowestPrice |-> updated.lowestPrice],
   imageUrl |-> updated.imageUrl]

\* A write that never deletes the old key.
StoreUnderBoth(pd, key, finalKey, updated) == RegPut(pd, finalKey, updated)

\* priceData[finalKey] = updated; if (finalKey !== key) delete priceData[key]
StoreUnder(pd, key, finalKey, updated) ==
  IF finalKey # key THEN RegDel(RegPut(pd, finalKey, updated), key)
  ELSE RegPut(pd, finalKey, updated)
OrderUnder(ko, key, finalKey) ==
  IF finalKey # key THEN OrdDel(OrdPut(ko, finalKey), key) ELSE OrdPut(ko, finalKey)

\* scrapeProduct returned a snapshot.
ScrapeOk(c, scraped, lim) ==
  LET r == cycle[c]
      key == r.keys[r.idx]
      finalKey == r.sanitized
      originalPrice == OriginalPrice(r.stored, scraped)
      updated == UpdatedProduct(r.stored, scraped, r.sanitized, now)
  IN /\ r.pc = "scrape"
     /\ ~scraped.error
     /\ priceData' = StoreUnder(priceData, key, finalKey, updated)
     /\ keyOrder' = OrderUnder(keyOrder, key, finalKey)
     /\ appended' = Lineage(appended, key, finalKey,
                             [date |-> now, price |-> scraped.price], "cycle")
     /\ Tick(lim)
     /\ cycle' = [cycle EXCEPT ![c] =
          [r EXCEPT !.pc = "pause",
                    !.productsChanged =
                       IF IsDrop(scraped.price, originalPrice)
                       THEN Append(r.productsChanged,
                                   DropEntry(originalPrice, scraped, updated, r.sanitized))
                       ELSE r.productsChanged,
                    !.log = Append(r.log, [key |-> key, finalKey |-> finalKey, ok |-> TRUE,
                                           prev |-> originalPrice, price |-> scraped.price,
                                           rec |-> updated])]]
     /\ UNCHANGED <<chats, disk, addOp, editOp, browsers, call>>

\* The pacing delay after an item ends; the loop goes on.
PauseEnd(c) ==
  /\ cycle[c].pc = "pause"
  /\ cycle' = [cycle EXCEPT ![c] = LoopToAwait(cycle[c], priceData)]
  /\ UNCHANGED <<priceData, keyOrder, chats, disk, now, addOp, editOp, appended, browsers, call>>

\* checkPrices has returned: its locals are gone, what it did is kept.
Returned(r) ==
  [r EXCEPT !.pc = "done", !.keys = <<>>, !.idx = 0, !.stored = NoProduct,
            !.sanitized = <<>>, !.errors = <<>>, !.ci = 0, !.pj = 0, !.log = <<>>]

\* The state of the invocation once browser.close() has returned and
\* saveData() has run: the first send of the notification loops, or the end.
AfterSave(r, ch) ==
  LET saved == [r EXCEPT !.saves = r.saves + 1, !.rcpt = ch]
  IN IF r.productsChanged # <<>> /\ ch # <<>>
     THEN [saved EXCEPT !.pc = "notify", !.ci = 1, !.pj = 1,
                        !.attempts = <<[chatId |-> ch[1], drop |-> 1]>>]
     ELSE Returned(saved)

\* A cycle that starts its notifications without saveData().
ClosedUnsaved(c) ==
  /\ cycle[c].pc = "closing"
  /\ cycle' = [cycle EXCEPT ![c] = AfterSave(cycle[c], chats)]
  /\ browsers' = browsers - 1
  /\ UNCHANGED <<priceData, keyOrder, chats, disk, now, addOp, editOp, appended, call>>

\* browser.close() returns; saveData(); the notification starts.
Closed(c) ==
  /\ cycle[c].pc = "closing"
  /\ disk' = Snapshot(priceData, keyOrder, chats)
  /\ cycle' = [cycle EXCEPT ![c] = AfterSave(cycle[c], chats)]
  /\ browsers' = browsers - 1
  /\ UNCHANGED <<priceData, keyOrder, chats, now, addOp, editOp, appended, call>>

\* Notification loops that a failed send ends.
NextSendUntilFailure(r, ch, delivered) ==
  IF delivered /\ r.pj < Len(r.productsChanged)
  THEN [r EXCEPT !.pj = r.pj + 1,
                 !.attempts = Append(r.attempts, [chatId |-> ch[r.ci], drop |-> r.pj + 1])]
  ELSE IF delivered /\ r.ci < Len(ch)
  THEN [r EXCEPT !.ci = r.ci + 1, !.pj = 1,
                 !.attempts = Append(r.attempts, [chatId |-> ch[r.ci + 1], drop |-> 1])]
  ELSE Returned([r EXCEPT !.anyFailed = r.anyFailed \/ ~delivered])

\* After a send (delivered or thrown and caught) and its pause: the next
\* (chat, drop) pair of the two for loops, chats being read as it is now.
NextSend(r, ch, delivered) ==
  LET seen == [r EXCEPT !.anyFailed = r.anyFailed \/ ~delivered]
  IN IF r.pj < Len(r.productsChanged)
     THEN [seen EXCEPT !.pj = r.pj + 1,
                       !.attempts = Append(r.attempts, [chatId |-> ch[r.ci], drop |-> r.pj + 1])]
     ELSE IF r.ci < Len(ch)
     THEN [seen EXCEPT !.ci = r.ci + 1, !.pj = 1,
                       !.attempts = Append(r.attempts, [chatId |-> ch[r.ci + 1], drop |-> 1])]
     ELSE Returned(seen)

\* bot.sendPhoto / bot.sendMessage returns or throws.
Notified(c, delivered) ==
  /\ cycle[c].pc = "notify"
  /\ cycle' = [cycle EXCEPT ![c] = NextSend(cycle[c], chats, delivered)]
  /\ UNCHANGED <<priceData, keyOrder, chats, disk, now, addOp, editOp, appended, browsers, call>>

\* ------------------------------------------------------------------- /add
\* bot.onText(/\/add (.+)/) up to its first await that the scrape follows.
AddStart(a, chatId, raw, lim) ==
  LET sanitized == sanitizeAmazonURL(raw)
  IN /\ addOp[a].pc # "fetching"
     /\ chats' = Registered(chats, chatId)
     /\ disk' = DiskAfterRegister(chatId)
     /\ addOp' = IF StartsWithHttp(raw) /\ sanitized \notin DOMAIN priceData
                 THEN [addOp EXCEPT ![a] = [pc |-> "fetching", chatId |-> chatId,
                                            sanitized |-> sanitized]]
                 ELSE addOp
     /\ Tick(lim)
     /\ UNCHANGED <<priceData, keyOrder, cycle, editOp, appended, browsers, call>>

\* The object /add stores.
AddedProduct(sanitized, scraped, chatId, t) ==
  Product(sanitized, scraped.title, scraped.price, scraped.price,
          scraped.imageUrl, t, t, chatId,
          <<[date |-> t, price |-> scraped.price]>>)

\* The browser could not be launched, or the scrape returned { error } and
\* the browser was closed: /add answers and stores nothing.
AddFailed(a) ==
  /\ addOp[a].pc = "fetching"
  /\ addOp' = [addOp EXCEPT ![a] = AddEnded]
  /\ UNCHANGED <<priceData, keyOrder, chats, disk, now, cycle, editOp, appended,
                 browsers, call>>

\* chromium.launch returned and newContext or newPage threw: the catch
\* block answers; browser.close() is not reached.
AddContextFailed(a) ==
  /\ addOp[a].pc = "fetching"
  /\ addOp' = [addOp EXCEPT ![a] = AddEnded]
  /\ browsers' = browsers + 1
  /\ UNCHANGED <<priceData, keyOrder, chats, disk, now, cycle, editOp, appended, call>>

\* The scrape returned a snapshot: priceData[sanitized] = {...}; saveData().
AddDone(a, scraped, lim) ==
  LET op == addOp[a]
      rec == AddedProduct(op.sanitized, scraped, op.chatId, now)
  IN /\ op.pc = "fetching"
     /\ ~scraped.error
     /\ priceData' = RegPut(priceData, op.sanitized, rec)
     /\ keyOrder' = OrdPut(keyOrder, op.sanitized)
     /\ disk' = Snapshot(priceData', keyOrder', chats)
     /\ Tick(lim)
     /\ appended' = RegPut(appended, op.sanitized,
                            <<Sample([date |-> now, price |-> scraped.price], "add")>>)
     /\ addOp' = [addOp EXCEPT ![a] = AddIdle]
     /\ UNCHANGED <<chats, cycle, editOp, browsers, call>>

\* ------------------------------------------------------------------ /edit
\* bot.onText(/\/edit (.+?) (.+)/) up to the scrape of the new URL.
EditStart(e, chatId, oldRaw, newRaw, lim) ==
  LET oldKey == sanitizeAmazonURL(oldRaw)
      newKey == sanitizeAmazonURL(newRaw)
  IN /\ editOp[e].pc # "fetching"
     /\ chats' = Registered(chats, chatId)
     /\ disk' = DiskAfterRegister(chatId)
     /\ editOp' = IF oldKey \in DOMAIN priceData
                  THEN [editOp EXCEPT ![e] = [pc |-> "fetching", chatId |-> chatId,
                                              oldKey |-> oldKey, newKey |-> newKey]]
                  ELSE editOp
     /\ Tick(lim)
     /\ UNCHANGED <<priceData, keyOrder, cycle, addOp, appended, browsers, call>>

\* An edit that keeps the old lowestPrice whatever the new price is.
EditedProductKeepsLowest(prev, scraped, newKey, chatId, t) ==
  Product(newKey, scraped.title, scraped.price,
          NumOr(prev.lowestPrice, scraped.price),
          IF scraped.imageUrl # Null THEN scraped.imageUrl ELSE prev.imageUrl,
          t,
          NumOr(prev.addedDate, t),
          IF prev.addedBy > 0 THEN prev.addedBy ELSE chatId,
          TrimHistory(Append(prev.history, [date |-> t, price |-> scraped.price])))

\* The object /edit stores under newKey, with its history entry.
EditedProduct(prev, scraped, newKey, chatId, t) ==
  LET lowest == IF IsNum(prev.lowestPrice) THEN prev.lowestPrice
                ELSE IF prev.price > 0 THEN prev.price ELSE scraped.price
  IN Product(newKey, scraped.title, scraped.price,
             Min(scraped.price, lowest),
             IF scraped.imageUrl # Null THEN scraped.imageUrl ELSE prev.imageUrl,
             t,
             NumOr(prev.addedDate, t),
             IF prev.addedBy > 0 THEN prev.addedBy ELSE chatId,
             TrimHistory(Append(prev.history, [date |-> t, price |-> scraped.price])))

\* /edit if its error branch dropped the old entry and saved.
EditFailedDropsOld(e) ==
  /\ editOp[e].pc = "fetching"
  /\ editOp' = [editOp EXCEPT ![e] = EditEnded]
  /\ priceData' = RegDel(priceData, editOp[e].oldKey)
  /\ keyOrder' = OrdDel(keyOrder, editOp[e].oldKey)
  /\ appended' = RegDel(appended, editOp[e].oldKey)
  /\ disk' = Snapshot(priceData', keyOrder', chats)
  /\ UNCHANGED <<chats, now, cycle, addOp, browsers, call>>

\* The scrape returned { error }, the browser could not be launched, or
\* priceData[oldKey] is gone (prev.lowestPrice throws): nothing is stored.
EditFailed(e) ==
  /\ editOp[e].pc = "fetching"
  /\ editOp' = [editOp EXCEPT ![e] = EditEnded]
  /\ UNCHANGED <<priceData, keyOrder, chats, disk, now, cycle, addOp, appended,
                 browsers, call>>

\* chromium.launch returned and newContext or newPage threw: the catch
\* block answers; browser.close() is not reached.
EditContextFailed(e) ==
  /\ editOp[e].pc = "fetching"
  /\ editOp' = [editOp EXCEPT ![e] = EditEnded]
  /\ browsers' = browsers + 1
  /\ UNCHANGED <<priceData, keyOrder, chats, disk, now, cycle, addOp, appended, call>>

\* The scrape returned a snapshot and priceData[oldKey] is still there:
\* priceData[newKey] = {...}; delete priceData[oldKey]; saveData().
EditDone(e, scraped, lim) ==
  LET op == editOp[e]
      rec == EditedProduct(priceData[op.oldKey], scraped, op.newKey, op.chatId, now)
  IN /\ op.pc = "fetching"
     /\ ~scraped.error
     /\ op.oldKey \in DOMAIN priceData
     /\ priceData' = RegDel(RegPut(priceData, op.newKey, rec), op.oldKey)
     /\ keyOrder' = OrdDel(OrdPut(keyOrder, op.newKey), op.oldKey)
     /\ disk' = Snapshot(priceData', keyOrder', chats)
     /\ Tick(lim)
     /\ appended' = RegDel(Lineage(appended, op.oldKey, op.newKey,
                                    [date |-> now, price |-> scraped.price], "edit"),
                            op.oldKey)
     /\ editOp' = [editOp EXCEPT ![e] = EditIdle]
     /\ UNCHANGED <<chats, cycle, addOp, browsers, call>>

\* ------------------------------------------------------- /remove, deletes
\* A fallback that takes the first key, whether it matches or not.
RemoveTargetAnyFirst(raw, pd, ko) ==
  LET sanitized == sanitizeAmazonURL(raw)
  IN IF sanitized \in DOMAIN pd THEN sanitized
     ELSE IF ko = <<>> THEN <<>>
     ELSE ko[1]

\* The key /remove deletes: the sanitized argument when it is a key, else
\* the first key that contains the argument or whose title does; <<>> when
\* there is none.
RemoveTarget(raw, pd, ko) ==
  LET sanitized == sanitizeAmazonURL(raw)
      found == {i \in 1..Len(ko) : Includes(ko[i], raw) \/ Includes(pd[ko[i]].title, raw)}
  IN IF sanitized \in DOMAIN pd THEN sanitized
     ELSE IF found = {} THEN <<>>
     ELSE ko[CHOOSE i \in found : \A j \in found : i <= j]

\* bot.onText(/\/remove (.+)/)
Remove(chatId, raw, lim) ==
  LET target == RemoveTarget(raw, priceData, keyOrder)
      ch == Registered(chats, chatId)
  IN /\ chats' = ch
     /\ IF target # <<>>
        THEN /\ priceData' = RegDel(priceData, target)
             /\ keyOrder' = OrdDel(keyOrder, target)
             /\ appended' = RegDel(appended, target)
             /\ disk' = Snapshot(priceData', keyOrder', ch)
        ELSE /\ disk' = DiskAfterRegister(chatId)
             /\ UNCHANGED <<priceData, keyOrder, appended>>
     /\ Tick(lim)
     /\ UNCHANGED <<cycle, addOp, editOp, browsers, call>>

\* callback_query "delete_product:<key>" for a key the chat was shown.
DeleteProduct(key, lim) ==
  /\ key \in DOMAIN priceData
  /\ priceData' = RegDel(priceData, key)
  /\ keyOrder' = OrdDel(keyOrder, key)
  /\ appended' = RegDel(appended, key)
  /\ disk' = Snapshot(priceData', keyOrder', chats)
  /\ UNCHANGED <<chats, cycle, addOp, editOp, browsers, call>>
  /\ Tick(lim)

\* delete_all if it cleared the recipients with the products.
DeleteAllAndChats(lim) ==
  /\ priceData' = EmptyReg
  /\ keyOrder' = <<>>
  /\ appended' = EmptyReg
  /\ chats' = <<>>
  /\ disk' = Snapshot(EmptyReg, <<>>, <<>>)
  /\ UNCHANGED <<cycle, addOp, editOp, browsers, call>>
  /\ Tick(lim)

\* callback_query "delete_all": priceData = {}; saveData().
DeleteAll(lim) ==
  /\ priceData' = EmptyReg
  /\ keyOrder' = <<>>
  /\ appended' = EmptyReg
  /\ disk' = Snapshot(EmptyReg, <<>>, chats)
  /\ UNCHANGED <<chats, cycle, addOp, editOp, browsers, call>>
  /\ Tick(lim)

\* ------------------------------------------------------------------- Next
Next ==
  \/ \E ch \in ChatIds : Message(ch, MaxClock)
  \/ \E c \in Cycles : CronCheck(c, MaxClock)
  \/ \E c \in Cycles, ch \in ChatIds : CheckCommand(c, ch, MaxClock)
  \/ \E c \in Cycles : CheckButton(c, MaxClock)
  \/ \E c \in Cycles : Launched(c)
  \/ \E c \in Cycles : LaunchFailed(c)
  \/ \E c \in Cycles : ScrapeFailed(c, MaxClock)
  \/ \E c \in Cycles, s \in ScrapeResults : ScrapeOk(c, s, MaxClock)
  \/ \E c \in Cycles : PauseEnd(c)
  \/ \E c \in Cycles : Closed(c)
  \/ \E c \in Cycles, d \in BOOLEAN : Notified(c, d)
  \/ \E a \in AddSlots, ch \in ChatIds, raw \in RawUrls : AddStart(a, ch, raw, MaxClock)
  \/ \E a \in AddSlots : AddFailed(a)
  \/ \E a \in AddSlots, s \in ScrapeResults : AddDone(a, s, MaxClock)
  \/ \E e \in EditSlots, ch \in ChatIds, o \in RawUrls, n \in RawUrls : EditStart(e, ch, o, n, MaxClock)
  \/ \E e \in EditSlots : EditFailed(e)
  \/ \E e \in EditSlots, s \in ScrapeResults : EditDone(e, s, MaxClock)
  \/ \E ch \in ChatIds, raw \in RemoveArgs : Remove(ch, raw, MaxClock)
  \/ \E k \in DOMAIN priceData : DeleteProduct(k, MaxClock)
  \/ DeleteAll(MaxClock)

Spec == Init /\ [][Next]_vars

\* ---------------------------------------------- browsers that stay open
\* For the registry, the store and the chats a handler whose newContext()
\* or newPage() throws ends as one whose chromium.launch() throws, which
\* Next has; what differs is the browser it leaves open. NextLeak adds
\* those exits.
NextLeak ==
  \/ Next
  \/ \E c \in Cycles : ContextFailed(c)
  \/ \E a \in AddSlots : AddContextFailed(a)
  \/ \E e \in EditSlots : EditContextFailed(e)

SpecLeak == Init /\ [][NextLeak]_vars

\* ------------------------------- a raw key next to its canonical key
\* prices.json after the earlier version stored a product under the raw
\* URL UAq and /add of the canonical URL UA, which is no key yet, was
\* answered with a new entry.
DuplicateStore ==
  Snapshot(
    [k \in {UAq, UA} |->
       IF k = UAq
       THEN Product(UAq, <<"Kettle">>, 2, 2, "img", 0, 0, 1,
                    <<[date |-> 0, price |-> 2]>>)
       ELSE AddedProduct(UA, Scraped(<<"Kettle">>, 2, "img"), 1, 1)],
    <<UAq, UA>>,
    <<1>>)

InitDup == InitFrom({DuplicateStore})

SpecDup == InitDup /\ [][Next]_vars

\* -------------------------------------------- handlers run one at a time
\* No handler is suspended at an await.
Quiet == InFlight = 0

\* The bot with an empty store at startup, where a message, a button press
\* or a cron firing arrives only when every earlier handler has returned.
InitSeq == InitFrom({EmptyStore})

NextSeq ==
  \/ \E ch \in ChatIds : Quiet /\ Message(ch, SeqClock)
  \/ \E c \in Cycles : Quiet /\ CronCheck(c, SeqClock)
  \/ \E c \in Cycles, ch \in ChatIds : Quiet /\ CheckCommand(c, ch, SeqClock)
  \/ \E c \in Cycles : Quiet /\ CheckButton(c, SeqClock)
  \/ \E c \in Cycles : Launched(c)
  \/ \E c \in Cycles : LaunchFailed(c)
  \/ \E c \in Cycles : ContextFailed(c)
  \/ \E c \in Cycles : ScrapeFailed(c, SeqClock)
  \/ \E c \in Cycles, s \in ScrapeResults : ScrapeOk(c, s, SeqClock)
  \/ \E c \in Cycles : PauseEnd(c)
  \/ \E c \in Cycles : Closed(c)
  \/ \E c \in Cycles, d \in BOOLEAN : Notified(c, d)
  \/ \E a \in AddSlots, ch \in ChatIds, raw \in RawUrls : Quiet /\ AddStart(a, ch, raw, SeqClock)
  \/ \E a \in AddSlots : AddFailed(a)
  \/ \E a \in AddSlots : AddContextFailed(a)
  \/ \E a \in AddSlots, s \in ScrapeResults : AddDone(a, s, SeqClock)
  \/ \E e \in EditSlots, ch \in ChatIds, o \in RawUrls, n \in RawUrls :
        Quiet /\ EditStart(e, ch, o, n, SeqClock)
  \/ \E e \in EditSlots : EditFailed(e)
  \/ \E e \in EditSlots : EditContextFailed(e)
  \/ \E e \in EditSlots, s \in ScrapeResults : EditDone(e, s, SeqClock)
  \/ \E ch \in ChatIds, raw \in RemoveArgs : Quiet /\ Remove(ch, raw, SeqClock)
  \/ \E k \in DOMAIN priceData : Quiet /\ DeleteProduct(k, SeqClock)
  \/ Quiet /\ DeleteAll(SeqClock)

SpecSeq == InitSeq /\ [][NextSeq]_vars

\* ------------------------------------------ the bot from an empty store
\* prices.json is absent at startup: every product of the registry was
\* stored by /add and then written by cycles and edits, in any interleaving.
InitEmpty == InitFrom({EmptyStore})

NextEmpty ==
  \/ \E ch \in ChatIds : Message(ch, EmptyClock)
  \/ \E c \in Cycles : CronCheck(c, EmptyClock)
  \/ \E c \in Cycles, ch \in ChatIds : CheckCommand(c, ch, EmptyClock)
  \/ \E c \in Cycles : CheckButton(c, EmptyClock)
  \/ \E c \in Cycles : Launched(c)
  \/ \E c \in Cycles : LaunchFailed(c)
  \/ \E c \in Cycles : ScrapeFailed(c, EmptyClock)
  \/ \E c \in Cycles, s \in ScrapeResults : ScrapeOk(c, s, EmptyClock)
  \/ \E c \in Cycles : PauseEnd(c)
  \/ \E c \in Cycles : Closed(c)
  \/ \E c \in Cycles, d \in BOOLEAN : Notified(c, d)
  \/ \E a \in AddSlots, ch \in ChatIds, raw \in RawUrls : AddStart(a, ch, raw, EmptyClock)
  \/ \E a \in AddSlots : AddFailed(a)
  \/ \E a \in AddSlots, s \in ScrapeResults : AddDone(a, s, EmptyClock)
  \/ \E e \in EditSlots, ch \in ChatIds, o \in RawUrls, n \in RawUrls : EditStart(e, ch, o, n, EmptyClock)
  \/ \E e \in EditSlots : EditFailed(e)
  \/ \E e \in EditSlots, s \in ScrapeResults : EditDone(e, s, EmptyClock)
  \/ \E ch \in ChatIds, raw \in RemoveArgs : Remove(ch, raw, EmptyClock)
  \/ \E k \in DOMAIN priceData : DeleteProduct(k, EmptyClock)
  \/ DeleteAll(EmptyClock)


SpecEmpty == InitEmpty /\ [][NextEmpty]_vars

\* ------------------------------------------------- /remove on its own
\* /remove runs without an await, so what it does depends only on the
\* registry it finds. The registries: every set of canonical and raw keys
\* that has the raw key UAq of the earlier version, in every order.
UBq == <<ORIGIN, "/dp/B", "?", "x=1">>
KeyOrders ==
  {ko \in UNION {[1..n -> {UA, UAq, UB, UBq}] : n \in 1..4} :
     /\ UAq \in Range(ko)
     /\ \A i \in DOMAIN ko : \A j \in DOMAIN ko : i # j => ko[i] # ko[j]}

RemoveStore(ko) ==
  Snapshot([k \in Range(ko) |->
              Product(k, <<"Kettle">>, 2, 2, Null, 1, 0, 1, <<[date |-> 0, price |-> 2]>>)],
           ko, <<1>>)

InitRemove == InitFrom({RemoveStore(ko) : ko \in KeyOrders})

NextRemove == \E ch \in ChatIds, raw \in RemoveArgs : Remove(ch, raw, RemoveClock)

SpecRemove == InitRemove /\ [][NextRemove]_vars

\* ------------------------------------------------ one product, a long run
\* Chat 1 adds one product; then cron cycles follow one another, with one
\* edit of its URL at any moment between two of them; every scrape succeeds
\* with a price the clock fixes.
HistClock == 2 * (HISTORY_LIMIT + ExtraCycles) + 9
HistScrape == Scraped(<<"Kettle">>, 1 + (now % 3), Null)

InitHistory == InitFrom({EmptyStore})

NextHistory ==
  \/ Quiet /\ priceData = EmptyReg /\ now = 2 /\ AddStart(1, 1, UA, HistClock)
  \/ AddDone(1, HistScrape, HistClock)
  \/ Quiet /\ keyOrder # <<>> /\ CronCheck(1, HistClock)
  \/ Launched(1)
  \/ ScrapeOk(1, HistScrape, HistClock)
  \/ PauseEnd(1)
  \/ Closed(1)
  \/ \E d \in BOOLEAN : Notified(1, d)
  \/ Quiet /\ UA \in DOMAIN priceData /\ EditStart(1, 1, UA, UB, HistClock)
  \/ EditDone(1, HistScrape, HistClock)

SpecHistory == InitHistory /\ [][NextHistory]_vars

\* ================================================================ claims
Last(s) == s[Len(s)]
LastN(s, n) == IF Len(s) > n THEN SubSeq(s, Len(s) - n + 1, Len(s)) ELSE s
Running(c) == ~Free(c)
PricesOf(samples) == {samples[i].price : i \in DOMAIN samples}
MinOf(S) == CHOOSE m \in S : \A x \in S : m <= x
Entries(samples) ==
  [i \in 1..Len(samples) |-> [date |-> samples[i].date, price |-> samples[i].price]]
CycleSamples(samples) == {i \in DOMAIN samples : samples[i].by = "cycle"}
\* Invocation c ends the item of its current key in this step.
ItemStep(c) == cycle[c].pc = "scrape" /\ cycle'[c].pc = "pause"
OkStep(c) == ItemStep(c) /\ Last(cycle'[c].log).ok
FailStep(c) == ItemStep(c) /\ ~Last(cycle'[c].log).ok
CurrentKey(c) == cycle[c].keys[cycle[c].idx]

\* C1: at most one monitoring cycle is active (between its start and the end
\* of its notifications) at any time, whichever of cron, /check and the
\* check_prices button started it.
SingleActiveCycle == Cardinality({c \in Cycles : Running(c)}) <= 1

\* C2: when cycles (and every other handler) run one after the other, the
\* lowestPrice of every tracked product is the minimum of all the prices
\* observed for it since it was added.
LowestIsMinObserved ==
  \A k \in DOMAIN priceData :
    /\ k \in DOMAIN appended
    /\ appended[k] # <<>>
    /\ priceData[k].lowestPrice = MinOf(PricesOf(appended[k]))

\* A product added at one price, then seen by two cycles, whose lowest price
\* is no longer its current price.
LowestIsMinObservedWitness ==
  \E k \in DOMAIN priceData :
    /\ k \in DOMAIN appended
    /\ appended[k] # <<>>
    /\ appended[k][1].by = "add"
    /\ Cardinality(CycleSamples(appended[k])) >= 2
    /\ priceData[k].lowestPrice < priceData[k].price

\* The product stored under a key is the one that was stored there before.
SameProduct(p, q) == p.addedDate = q.addedDate /\ p.addedBy = q.addedBy

\* C3: under every interleaving of cycles and edits, the lowestPrice stored
\* under a key never increases while the product stays tracked under it.
LowestNeverIncreases ==
  [][\A k \in DOMAIN priceData \cap DOMAIN priceData' :
       SameProduct(priceData[k], priceData'[k])
         => priceData'[k].lowestPrice <= priceData[k].lowestPrice]_vars

\* The percentage of a drop entry is savings / previousPrice * 100 to the
\* nearest tenth, as toFixed(1) prints it.
PctIsNearestTenth(m) ==
  LET exact == 1000 * m.savings
      shown == m.pct * m.previousPrice
  IN 2 * (IF shown >= exact THEN shown - exact ELSE exact - shown) <= m.previousPrice

\* C4: a cycle records a drop for a product exactly when the scraped price is
\* strictly below the price it read from the registry, with the savings and
\* the percentage computed from these two prices; an equal or a higher price
\* and a failed scrape record nothing.
DropsAreStrictDrops ==
  \A c \in Cycles :
    cycle[c].pc \in {"scrape", "pause", "closing", "notify"} =>
      LET strict == SelectSeq(cycle[c].log, LAMBDA e : e.ok /\ e.price < e.prev)
          drops == cycle[c].productsChanged
      IN /\ Len(drops) = Len(strict)
         /\ \A i \in 1..Len(drops) :
              /\ drops[i].url = strict[i].finalKey
              /\ drops[i].message.previousPrice = strict[i].prev
              /\ drops[i].message.newPrice = strict[i].price
              /\ drops[i].message.savings = strict[i].prev - strict[i].price
              /\ PctIsNearestTenth(drops[i].message)

\* A cycle that saw a price fall from 3 to 2 (33.3%) and another price stay
\* as it was.
DropsAreStrictDropsWitness ==
  \E c \in Cycles :
    /\ Len(cycle[c].log) = 2
    /\ \E i \in 1..2 : cycle[c].log[i].ok /\ cycle[c].log[i].price = cycle[c].log[i].prev
    /\ Len(cycle[c].productsChanged) = 1
    /\ cycle[c].productsChanged[1].message.pct = 333

\* C5: a failed scrape leaves the product in the registry under its key with
\* nothing but lastChecked changed, and the cycle goes on to the products
\* after it.
FailureChangesOnlyLastChecked ==
  [][\A c \in Cycles :
       (FailStep(c) /\ CurrentKey(c) \in DOMAIN priceData) =>
         /\ priceData' = [priceData EXCEPT ![CurrentKey(c)].lastChecked = now]
         /\ cycle'[c].productsChanged = cycle[c].productsChanged
         /\ cycle'[c].keys = cycle[c].keys]_vars

\* C6: after more than HISTORY_LIMIT successful cycles on one product, its
\* history has exactly HISTORY_LIMIT entries, the most recent ones in the
\* order they were appended; no history is ever longer.
HistoryBoundedFifo ==
  \A k \in DOMAIN priceData :
    /\ Len(priceData[k].history) <= HISTORY_LIMIT
    /\ k \in DOMAIN appended
    /\ priceData[k].history = Entries(LastN(appended[k], HISTORY_LIMIT))
    /\ Cardinality(CycleSamples(appended[k])) >= HISTORY_LIMIT
         => Len(priceData[k].history) = HISTORY_LIMIT

\* A product that HISTORY_LIMIT + ExtraCycles cycles have scraped.
HistoryBoundedFifoWitness ==
  \E k \in DOMAIN priceData :
    /\ k \in DOMAIN appended
    /\ Cardinality(CycleSamples(appended[k])) >= HISTORY_LIMIT + ExtraCycles
    /\ Len(priceData[k].history) = HISTORY_LIMIT
    /\ priceData[k].history[1].date > appended[k][1].date

\* C7, as stated: once a cycle has processed a product stored under a key
\* that is not the canonical form of its URL, the old key is gone from the
\* registry.
OldKeyGoneAfterItem ==
  [][\A c \in Cycles :
       (ItemStep(c) /\ CurrentKey(c) \in DOMAIN priceData
        /\ cycle[c].sanitized # CurrentKey(c))
         => CurrentKey(c) \notin DOMAIN priceData']_vars

\* C7, amended: once a cycle has scraped such a product successfully, the
\* old key is gone and the canonical key holds the product, with the old
\* entry's history (and the new sample) and its lowest price (or the new
\* price, if lower) carried forward.
KeyRewrittenOnSuccess ==
  [][\A c \in Cycles :
       (OkStep(c) /\ CurrentKey(c) \in DOMAIN priceData
        /\ cycle[c].sanitized # CurrentKey(c))
         => LET old == priceData[CurrentKey(c)]
                price == Last(cycle'[c].log).price
                new == cycle[c].sanitized
            IN /\ CurrentKey(c) \notin DOMAIN priceData'
               /\ new \in DOMAIN priceData'
               /\ priceData'[new].url = new
               /\ priceData'[new].history =
                    TrimHistory(Append(old.history, [date |-> now, price |-> price]))
               /\ priceData'[new].lowestPrice = Min(price, old.lowestPrice)]_vars

\* The product of the store under UAq has moved to UA with a second history
\* entry.
KeyRewrittenOnSuccessWitness ==
  /\ UAq \notin DOMAIN priceData
  /\ UA \in DOMAIN priceData
  /\ Len(priceData[UA].history) = 2
  /\ \E c \in Cycles : \E i \in DOMAIN cycle[c].log :
       /\ cycle[c].log[i].ok
       /\ cycle[c].log[i].key = UAq
       /\ cycle[c].log[i].finalKey = UA
       /\ cycle[c].log[i].rec = priceData[UA]

\* C8: a cycle writes the store exactly once, after its last product and
\* before its first notification; no step of its loop or of its
\* notifications writes it.
CycleSavesOnce ==
  [][\A c \in Cycles :
       cycle'[c] # cycle[c] =>
         /\ cycle[c].pc \in {"launch", "scrape", "pause"}
              => /\ disk' = disk
                 /\ cycle'[c].saves = 0
                 /\ cycle'[c].attempts = <<>>
         /\ cycle[c].pc = "closing"
              => /\ disk' = Snapshot(priceData, keyOrder, chats)
                 /\ cycle[c].attempts = <<>>
                 /\ cycle'[c].saves = 1
         /\ cycle[c].pc = "notify"
              => /\ disk' = disk
                 /\ cycle'[c].saves = 1]_vars

\* A cycle that has processed two products and is sending its first
\* notification, the store holding what it did.
CycleSavesOnceWitness ==
  \E c \in Cycles :
    /\ cycle[c].pc = "notify"
    /\ Len(cycle[c].log) = 2
    /\ Len(cycle[c].attempts) = 1
    /\ cycle[c].saves = 1
    /\ disk = Snapshot(priceData, keyOrder, chats)
    /\ disk # LegacyStore

\* The store holds a product as a cycle with this log wrote it after a
\* successful scrape.
HoldsUpdateOf(store, log) ==
  \E i \in DOMAIN log :
    /\ log[i].ok
    /\ log[i].finalKey \in DOMAIN store.products
    /\ store.products[log[i].finalKey] = log[i].rec

\* C9: no handler writes the store with some, but not all, of the product
\* updates of a cycle that is still in its loop.
NoPartialCycleInStore ==
  [][\A c \in Cycles :
       (cycle[c].pc = "scrape" /\ cycle'[c] = cycle[c] /\ disk' # disk)
         => ~HoldsUpdateOf(disk', cycle[c].log)]_vars

\* C10: when a cycle with drops has returned, each pair of a chat registered
\* when the notifications started and a drop was attempted exactly once,
\* whether or not other sends failed.
EveryPairAttemptedOnce ==
  \A c \in Cycles :
    cycle[c].pc = "done" =>
      \A ch \in Range(cycle[c].rcpt) : \A j \in 1..Len(cycle[c].productsChanged) :
        Cardinality({i \in DOMAIN cycle[c].attempts :
                       cycle[c].attempts[i] = [chatId |-> ch, drop |-> j]}) = 1

\* A cycle with two drops and two chats has returned after a send failed.
EveryPairAttemptedOnceWitness ==
  \E c \in Cycles :
    /\ cycle[c].pc = "done"
    /\ cycle[c].anyFailed
    /\ Len(cycle[c].rcpt) = 2
    /\ Len(cycle[c].productsChanged) = 2
    /\ Len(cycle[c].attempts) >= 4

\* Slot e's /edit stores its product in this step.
EditStep(e) ==
  /\ editOp[e].pc = "fetching"
  /\ editOp'[e].pc = "idle"
  /\ now' # now

\* C11: a successful /edit leaves an entry under the canonical new URL whose
\* history is the old entry's history plus one sample and whose lowestPrice
\* is the minimum of the old lowestPrice and the new price, and no entry
\* under the canonical old URL when the keys differ; also when the two URLs
\* have the same canonical form.
EditReplacesProduct ==
  [][\A e \in EditSlots :
       EditStep(e) =>
         LET old == priceData[editOp[e].oldKey]
             new == editOp[e].newKey
         IN /\ new \in DOMAIN priceData'
            /\ Len(priceData'[new].history) = Len(old.history) + 1
            /\ SubSeq(priceData'[new].history, 1, Len(old.history)) = old.history
            /\ Last(priceData'[new].history).price = priceData'[new].price
            /\ priceData'[new].lowestPrice = Min(old.lowestPrice, priceData'[new].price)
            /\ new # editOp[e].oldKey => editOp[e].oldKey \notin DOMAIN priceData']_vars

\* C12: the stored price is the most recent successful observation, and a
\* cycle reports a drop exactly when its observation is below that stored
\* price, whatever the lowest price is: a price above the historical minimum
\* is a drop when it is below the last observation, and a price above the
\* last observation is none.
PriceIsLatestAndBaseline ==
  /\ \A k \in DOMAIN priceData :
       /\ k \in DOMAIN appended
       /\ appended[k] # <<>>
       /\ priceData[k].price = Last(appended[k]).price
  /\ \A c \in Cycles :
       (cycle[c].pc \in {"pause", "closing", "notify"} /\ Last(cycle[c].log).ok) =>
         LET e == Last(cycle[c].log)
             seen == appended[e.finalKey]
         IN /\ Len(seen) >= 2
            /\ Last(seen).by = "cycle"
            /\ e.price = Last(seen).price
            /\ e.prev = seen[Len(seen) - 1].price
            /\ (cycle[c].productsChanged # <<>>) <=> (e.price < seen[Len(seen) - 1].price)

\* A cycle has reported a drop to a price above the product's lowest price.
PriceIsLatestAndBaselineWitness ==
  \E c \in Cycles :
    /\ cycle[c].pc \in {"pause", "closing", "notify"}
    /\ Len(cycle[c].productsChanged) = 1
    /\ cycle[c].productsChanged[1].message.newPrice
         > cycle[c].productsChanged[1].message.lowestPrice
    /\ priceData[Last(cycle[c].log).finalKey].price
         = cycle[c].productsChanged[1].message.newPrice

\* C13: every browser launched by a cycle, by /add or by /edit is closed on
\* every way out of the operation: the browsers that are open are those of
\* the cycles that are in their loop.
NoBrowserLeftOpen ==
  browsers = Cardinality({c \in Cycles : cycle[c].pc \in {"scrape", "pause", "closing"}})

\* ------------------------------------------- the price text of a page
\* The characters of a price text, and the longest text.
MaxPriceLen == 4
Digits == {"0", "1"}
PriceChars == Digits \cup {".", ",", "$"}
RECURSIVE Texts(_, _)
Texts(chars, n) ==
  IF n = 0 THEN {<<>>}
  ELSE LET shorter == Texts(chars, n - 1)
       IN shorter \cup {Append(t, ch) : t \in shorter, ch \in chars}
\* What page.evaluate returns for the price: null, or the text of an element.
PriceTexts ==
  {[present |-> FALSE, text |-> <<>>]}
    \cup {[present |-> TRUE, text |-> t] : t \in Texts(PriceChars, MaxPriceLen)}

RECURSIVE Pow10(_)
Pow10(n) == IF n = 0 THEN 1 ELSE 10 * Pow10(n - 1)
DigitVal(ch) == IF ch = "1" THEN 1 ELSE 0
RECURSIVE DigitsVal(_)
DigitsVal(s) ==
  IF s = <<>> THEN 0
  ELSE 10 * DigitsVal(SubSeq(s, 1, Len(s) - 1)) + DigitVal(s[Len(s)])
\* Numbers are counted in units of 10^-MaxPriceLen.
Decimal(int, frac) ==
  DigitsVal(int) * Pow10(MaxPriceLen) + DigitsVal(frac) * Pow10(MaxPriceLen - Len(frac))

\* priceText.replace(/[^0-9.]/g, "")
StripNonPrice(text) == SelectSeq(text, LAMBDA ch : ch \in Digits \cup {"."})

\* parseFloat of a text of digits and dots: the value of its longest prefix
\* that is a decimal literal, NaN (NoNum) when no prefix is one.
parseFloat(s) ==
  LET int == SubSeq(s, 1, FirstIndex(s, {"."}) - 1)
      rest == SubSeq(s, Len(int) + 2, Len(s))
      frac == SubSeq(rest, 1, FirstIndex(rest, {"."}) - 1)
  IN IF int = <<>> /\ frac = <<>> THEN NoNum ELSE Decimal(int, frac)

\* The price of scrapeProduct: priceText ? parseFloat(...) : null, and the
\* throw on null, NaN and price <= 0.
ScrapedPrice(priceText) ==
  LET price == IF priceText.present /\ priceText.text # <<>>
               THEN parseFloat(StripNonPrice(priceText.text))
               ELSE NoNum
  IN IF price = NoNum \/ price <= 0
     THEN [error |-> TRUE, price |-> NoNum]
     ELSE [error |-> FALSE, price |-> price]

\* scrapeProduct reads a price text off the page and parses it.
InitPrice ==
  /\ InitProgram({EmptyStore})
  /\ \E t \in PriceTexts : call = [NoCall EXCEPT !.arg = t]

ParsePrice ==
  /\ call.step = 0
  /\ call' = [call EXCEPT !.once = ScrapedPrice(call.arg), !.step = 1]
  /\ UNCHANGED <<priceData, keyOrder, chats, disk, now, cycle, addOp, editOp, appended,
                 browsers>>

NextPrice == ParsePrice

SpecPrice == InitPrice /\ [][NextPrice]_vars

\* The text has one decimal point at most and a digit: it reads as a number.
IsDecimalText(s) ==
  /\ Cardinality({i \in 1..Len(s) : s[i] = "."}) <= 1
  /\ \E i \in 1..Len(s) : s[i] \in Digits
\* The number a decimal text reads as.
DecimalValue(s) ==
  LET dot == FirstIndex(s, {"."})
  IN Decimal(SubSeq(s, 1, dot - 1), SubSeq(s, dot + 1, Len(s)))

\* C14: parsing the price fails exactly when the text is absent or what is
\* left of it after removing every character but digits and '.' is empty,
\* not a number, zero or negative; otherwise the price is the number that
\* remainder reads as.
PriceFailsExactlyOnBadText ==
  call.step = 1 =>
    LET rest == StripNonPrice(call.arg.text)
        bad == \/ ~call.arg.present
               \/ rest = <<>>
               \/ ~IsDecimalText(rest)
               \/ DecimalValue(rest) <= 0
    IN /\ call.once.error <=> bad
       /\ ~bad => call.once.price = DecimalValue(rest)

\* ------------------------------------------------- sanitizeAmazonURL alone
\* The tokens of the texts given to sanitizeAmazonURL, and the longest text.
MaxUrlLen == 3
UrlTokens == Origins \cup AlphaTokens \cup {"/dp/A", "?", "x=1", "#", ":"}
\* The texts the token rules above read correctly: a host only at the start,
\* followed by nothing, a path, a query or a fragment.
UrlTexts ==
  {u \in Texts(UrlTokens, MaxUrlLen) :
     /\ \A i \in 2..Len(u) : u[i] \notin Origins
     /\ (HasOrigin(u) /\ Len(u) >= 2) => u[2] \in {"/dp/A", "?", "#"}}

InitSanitize ==
  /\ InitProgram({EmptyStore})
  /\ \E u \in UrlTexts : call = [NoCall EXCEPT !.arg = u]

\* const key = sanitizeAmazonURL(raw)
SanitizeRaw ==
  /\ call.step = 0
  /\ call' = [call EXCEPT !.once = sanitizeAmazonURL(call.arg), !.step = 1]
  /\ UNCHANGED <<priceData, keyOrder, chats, disk, now, cycle, addOp, editOp, appended,
                 browsers>>

\* sanitizeAmazonURL(stored.url || key) on what the first call returned.
SanitizeStored ==
  /\ call.step = 1
  /\ call' = [call EXCEPT !.twice = sanitizeAmazonURL(call.once), !.step = 2]
  /\ UNCHANGED <<priceData, keyOrder, chats, disk, now, cycle, addOp, editOp, appended,
                 browsers>>

NextSanitize == SanitizeRaw \/ SanitizeStored

SpecSanitize == InitSanitize /\ [][NextSanitize]_vars

\* C15: sanitizeAmazonURL is idempotent for every text, parseable or not.
SanitizeIsIdempotent == call.step = 2 => call.twice = call.once

\* ------------------------------------------------------------------- C16
\* C16: the recipient set only grows: every step of every handler, cycle
\* and notification keeps each registered chat, in the order it was
\* registered; nothing removes a chat, not delete_all and not a failed
\* send.
ChatsAppendOnly ==
  [][/\ Len(chats) <= Len(chats')
     /\ SubSeq(chats', 1, Len(chats)) = chats]_vars

\* A second chat registered, a cycle whose notification to some chat
\* failed, and the registry emptied by delete_all: both chats are still
\* recipients.
ChatsAppendOnlyWitness ==
  /\ Len(chats) = 2
  /\ priceData = EmptyReg
  /\ disk.products = EmptyReg
  /\ \E c \in Cycles : cycle[c].pc = "done" /\ cycle[c].anyFailed

\* ------------------------------------------------------------------- C17
\* The step in which /add or /edit returns from its error branch.
AddFailStep(a) == addOp[a].pc = "fetching" /\ addOp'[a].pc = "failed"
EditFailStep(e) == editOp[e].pc = "fetching" /\ editOp'[e].pc = "failed"

\* C17: a failed /add or /edit (the scrape returned an error, which is
\* also what a missing title or price gives) creates, modifies and deletes
\* no registry entry and writes nothing to the store.
FailedAddEditStoresNothing ==
  [][(\/ \E a \in AddSlots : AddFailStep(a)
      \/ \E e \in EditSlots : EditFailStep(e))
     => /\ priceData' = priceData
        /\ keyOrder' = keyOrder
        /\ disk' = disk]_vars

\* An /add and an /edit have both failed on a scrape error, no browser was
\* left open by them, and the registry and the store hold the two products
\* they held before.
FailedAddEditStoresNothingWitness ==
  /\ \E a \in AddSlots : addOp[a].pc = "failed"
  /\ \E e \in EditSlots : editOp[e].pc = "failed"
  /\ browsers = 0
  /\ priceData = LegacyStore.products
  /\ disk.products = priceData

\* ------------------------------------------------------------------- C18
\* C18: once a tracked product has an imageUrl, no step of a cycle and no
\* edit leaves it without one: under the key it stays under, under the
\* canonical key a cycle moves it to, and under the new key an edit moves
\* it to.
ImageNeverNulled ==
  [][/\ \A k \in DOMAIN priceData \cap DOMAIN priceData' :
          (SameProduct(priceData[k], priceData'[k]) /\ priceData[k].imageUrl # Null)
            => priceData'[k].imageUrl # Null
     /\ \A c \in Cycles :
          (/\ OkStep(c)
           /\ CurrentKey(c) \in DOMAIN priceData
           /\ SameProduct(priceData[CurrentKey(c)], cycle[c].stored)
           /\ priceData[CurrentKey(c)].imageUrl # Null)
            => priceData'[Last(cycle'[c].log).finalKey].imageUrl # Null
     /\ \A e \in EditSlots :
          (/\ EditStep(e)
           /\ editOp[e].newKey # editOp[e].oldKey
           /\ priceData[editOp[e].oldKey].imageUrl # Null)
            => priceData'[editOp[e].newKey].imageUrl # Null]_vars

\* ------------------------------------------------------------------- C19
\* C19: within one cycle each tracked product is fetched and mutated at most
\* once: no two items of a cycle end on the same registry key, also when
\* the registry holds a non-canonical key and the canonical key it
\* rewrites to.
OneItemPerProduct ==
  \A c \in Cycles :
    \A i \in DOMAIN cycle[c].log : \A j \in DOMAIN cycle[c].log :
      i # j => cycle[c].log[i].finalKey # cycle[c].log[j].finalKey

\* ------------------------------------------------------------------- C20
\* Invocation c is rewriting a key: it has read the product under a key
\* whose canonical form differs and has not yet stored it.
Rewriting(c) ==
  /\ cycle[c].pc = "scrape"
  /\ cycle[c].sanitized # CurrentKey(c)

DeletedStaysAbsent ==
  [][\A c \in Cycles :
       (ItemStep(c) /\ CurrentKey(c) \notin DOMAIN priceData)
         => DOMAIN priceData' \subseteq DOMAIN priceData]_vars

\* ------------------------------------------------------------------- C22
\* The step in which /add stores its product.
AddStep(a) == addOp[a].pc = "fetching" /\ addOp'[a].pc = "idle"

\* C22: /add never overwrites an entry: when the registry has an entry under
\* the canonical URL at the moment /add writes, the entry's history,
\* lowestPrice and addedBy are what they were.
AddNeverOverwrites ==
  [][\A a \in AddSlots :
       (AddStep(a) /\ addOp[a].sanitized \in DOMAIN priceData)
         => /\ addOp[a].sanitized \in DOMAIN priceData'
            /\ priceData'[addOp[a].sanitized].history
                 = priceData[addOp[a].sanitized].history
            /\ priceData'[addOp[a].sanitized].lowestPrice
                 = priceData[addOp[a].sanitized].lowestPrice
            /\ priceData'[addOp[a].sanitized].addedBy
                 = priceData[addOp[a].sanitized].addedBy]_vars

\* ------------------------------------------------------------------- C23
\* C23: from an empty registry, in every reachable state every tracked
\* product has lowestPrice <= price.
LowestAtMostPrice ==
  \A k \in DOMAIN priceData : priceData[k].lowestPrice <= priceData[k].price

\* A product added to the empty registry whose edit found a price above
\* its lowest price: the lowest price is kept.
LowestAtMostPriceWitness ==
  \E k \in DOMAIN priceData :
    /\ Len(appended[k]) >= 2
    /\ appended[k][1].by = "add"
    /\ Last(appended[k]).by = "edit"
    /\ priceData[k].lowestPrice < priceData[k].price

\* ------------------------------------------------------------------- C24
\* C24: from an empty registry, in every reachable state every tracked
\* product has a non-empty history whose last entry has the product's
\* current price.
HistoryEndsAtPrice ==
  \A k \in DOMAIN priceData :
    /\ priceData[k].history # <<>>
    /\ Last(priceData[k].history).price = priceData[k].price

\* A product added to the empty registry for which a cycle stored a price
\* other than the one /add had stored: the history has both, the new one
\* last.
HistoryEndsAtPriceWitness ==
  \E k \in DOMAIN priceData :
    /\ Len(priceData[k].history) >= 2
    /\ appended[k][1].by = "add"
    /\ Last(appended[k]).by = "cycle"
    /\ priceData[k].history[1].price # priceData[k].price

\* ------------------------------------------------------------------- C25
\* The keys a step deletes, and the frame of a delete: nothing is added and
\* every entry that stays is what it was.
Deleted == DOMAIN priceData \ DOMAIN priceData'
OthersUnchanged ==
  /\ DOMAIN priceData' \subseteq DOMAIN priceData
  /\ \A k \in DOMAIN priceData' : priceData'[k] = priceData[k]
\* Key k matches the argument of /remove: it contains the text, or the title
\* stored under it does.
Matches(k, raw) == Includes(k, raw) \/ Includes(priceData[k].title, raw)
Position(k) == CHOOSE i \in 1..Len(keyOrder) : keyOrder[i] = k

\* C25 as stated: /remove deletes at most one product, and only one whose
\* key is the canonical form of the argument; every other entry is left
\* unchanged.
RemoveOnlyCanonical ==
  [][\A ch \in ChatIds, raw \in RemoveArgs :
       Remove(ch, raw, RemoveClock)
         => /\ Cardinality(Deleted) <= 1
            /\ Deleted \subseteq {sanitizeAmazonURL(raw)}
            /\ OthersUnchanged]_vars

\* C25 as the code has it: /remove deletes at most one product and leaves
\* every other entry unchanged; the deleted key is the canonical form of the
\* argument when that is a key, and else the first key, in the order of the
\* registry, that contains the argument or whose title contains it.
RemoveOneMatching ==
  [][\A ch \in ChatIds, raw \in RemoveArgs :
       Remove(ch, raw, RemoveClock)
         => /\ Cardinality(Deleted) <= 1
            /\ OthersUnchanged
            /\ \A k \in Deleted :
                 \/ k = sanitizeAmazonURL(raw)
                 \/ /\ sanitizeAmazonURL(raw) \notin DOMAIN priceData
                    /\ Matches(k, raw)
                    /\ \A m \in DOMAIN priceData :
                         Matches(m, raw) => Position(k) <= Position(m)
            /\ (\/ sanitizeAmazonURL(raw) \in DOMAIN priceData
                \/ \E m \in DOMAIN priceData : Matches(m, raw))
                 => Deleted # {}]_vars

\* The store held a product under the raw key UAq, which is the canonical
\* form of no argument, and one /remove has deleted it, by the match of the
\* argument; the other three products are still there.
RemoveOneMatchingWitness ==
  /\ now = 3
  /\ DOMAIN priceData = {UA, UB, UBq}
  /\ disk.products = priceData

====
